---------------------------- MODULE Spec2Model ----------------------------
(***************************************************************************)
(* A model of src/app.py, the TeemUp-n8n service: the /events handler     *)
(* (events), its helpers (_get_config, _determine_meetup_url,             *)
(* _fetch_html, _ensure_datetime, _pick_event_cfg, the formatters) and    *)
(* the shared configuration global CONFIG.                                *)
(*                                                                         *)
(* Conventions.                                                            *)
(*  - A Python str on which the code works character by character (titles,*)
(*    override keys, starts_at strings, links, descriptions) is a sequence *)
(*    of one-character strings.  A str that the code only compares or      *)
(*    tests for truth (group names, source URLs, zone names, thread ids)   *)
(*    is a TLA+ string; None is the string NoneStr.                        *)
(*  - Instants are whole seconds since the Unix epoch.  The code works in  *)
(*    milliseconds (int(timestamp() * 1000)); every start time modelled    *)
(*    here has whole seconds, so each of the code's millisecond values is  *)
(*    1000 times the model's value and comparisons and floor divisions     *)
(*    agree.  (TLC's integers are 32 bits wide, Python's are unbounded.)   *)
(*  - Time zone rules are those of the year 2025, the year of every        *)
(*    modelled start time and clock reading.                               *)
(***************************************************************************)
EXTENDS Integers, Sequences, FiniteSets, TLC

VARIABLES
    configFile,   \* the configuration document at CONFIG_PATH
    CONFIG,       \* the module global CONFIG
    RELOAD_CONFIG_EACH_REQUEST, \* the module global of that name
    page,         \* the remote page: what a fetch and the parser give
    now,          \* the wall clock, an instant
    group,        \* request parameter group
    url,          \* request parameter url
    tz,           \* request parameter tz
    pc,           \* position of the request inside events()
    cfg,          \* events(): local cfg
    default_tz,   \* events(): local default_tz
    tz_name,      \* events(): local tz_name
    meetup_groups,\* _determine_meetup_url(): local meetup_groups
    meetup_url,   \* events(): local meetup_url
    zone,         \* events(): local zone
    baseline_ms,  \* events(): local baseline_ms
    html,         \* events(): local html (the number of bytes held)
    raw_events,   \* events(): local raw_events
    event_cfg,    \* events(): local event_cfg
    idx,          \* events(): position of the for loop in raw_events
    chosen,       \* events(): local chosen
    items,        \* events(): local items
    raised,       \* the exception that ended the request, or "none"
    returned,     \* TRUE once events() has returned its list
    fetchCalls,   \* number of calls of _fetch_html by this request
    parseCalls,   \* number of calls of teemup_parse by this request
    buffered      \* most bytes _fetch_html has held at once

vars == <<configFile, CONFIG, RELOAD_CONFIG_EACH_REQUEST, page, now, group, url, tz, pc, cfg, default_tz,
          tz_name, meetup_groups, meetup_url, zone, baseline_ms, html,
          raw_events, event_cfg, idx, chosen, items, raised, returned,
          fetchCalls, parseCalls, buffered>>

NoneStr == "<None>"

(***************************************************************************)
(* str methods                                                             *)
(***************************************************************************)
Whitespace == {" ", "\t", "\n"}

RECURSIVE lstrip(_)
lstrip(s) == IF s # <<>> /\ Head(s) \in Whitespace THEN lstrip(Tail(s)) ELSE s

RECURSIVE rstrip(_)
rstrip(s) ==
    IF s # <<>> /\ s[Len(s)] \in Whitespace
    THEN rstrip(SubSeq(s, 1, Len(s) - 1))
    ELSE s

strip(s) == rstrip(lstrip(s))

UpperCase == <<"A","B","C","D","E","F","G","H","I","J","K","L","M",
               "N","O","P","Q","R","S","T","U","V","W","X","Y","Z">>
LowerCase == <<"a","b","c","d","e","f","g","h","i","j","k","l","m",
               "n","o","p","q","r","s","t","u","v","w","x","y","z">>

lowerChar(c) ==
    IF \E i \in 1..Len(UpperCase) : UpperCase[i] = c
    THEN LowerCase[CHOOSE i \in 1..Len(UpperCase) : UpperCase[i] = c]
    ELSE c

lower(s) == [i \in 1..Len(s) |-> lowerChar(s[i])]

\* needle in hay
contains(hay, needle) ==
    \E i \in 0..(Len(hay) - Len(needle)) :
        SubSeq(hay, i + 1, i + Len(needle)) = needle

endswith(s, suffix) ==
    /\ Len(s) >= Len(suffix)
    /\ SubSeq(s, Len(s) - Len(suffix) + 1, Len(s)) = suffix

\* s.rstrip(")"): every trailing ")" goes
RECURSIVE rstripParen(_)
rstripParen(s) ==
    IF s # <<>> /\ s[Len(s)] = ")"
    THEN rstripParen(SubSeq(s, 1, Len(s) - 1))
    ELSE s

(***************************************************************************)
(* re.search(r"https?://\S+", desc): the leftmost match, \S+ greedy.       *)
(***************************************************************************)
SchemeHttp == <<"h","t","t","p",":","/","/">>
SchemeHttps == <<"h","t","t","p","s",":","/","/">>

startsAt(s, i, prefix) ==
    /\ i + Len(prefix) - 1 <= Len(s)
    /\ SubSeq(s, i, i + Len(prefix) - 1) = prefix

\* the index of the first character after the scheme when the pattern
\* matches at i (a non-whitespace character must follow), else 0
schemeEnd(s, i) ==
    LET after == IF startsAt(s, i, SchemeHttps) THEN i + Len(SchemeHttps)
                 ELSE IF startsAt(s, i, SchemeHttp) THEN i + Len(SchemeHttp)
                 ELSE 0
    IN IF after # 0 /\ after <= Len(s) /\ s[after] \notin Whitespace
       THEN after ELSE 0

RECURSIVE runEnd(_, _)
runEnd(s, j) ==
    IF j < Len(s) /\ s[j + 1] \notin Whitespace THEN runEnd(s, j + 1) ELSE j

\* m.group(0), or <<>> when there is no match (a match is never empty)
searchUrl(desc) ==
    LET starts == {i \in 1..Len(desc) : schemeEnd(desc, i) # 0}
    IN IF starts = {} THEN <<>>
       ELSE LET i == CHOOSE k \in starts : \A o \in starts : k <= o
            IN SubSeq(desc, i, runEnd(desc, schemeEnd(desc, i)))

(***************************************************************************)
(* datetime: fromisoformat, the calendar, tzinfo, strftime                 *)
(***************************************************************************)
Digits == <<"0","1","2","3","4","5","6","7","8","9">>

isDigit(c) == \E i \in 1..Len(Digits) : Digits[i] = c

digitValue(c) == (CHOOSE i \in 1..Len(Digits) : Digits[i] = c) - 1

allDigits(s) == \A i \in 1..Len(s) : isDigit(s[i])

RECURSIVE toInt(_)
toInt(s) ==
    IF s = <<>> THEN 0
    ELSE 10 * toInt(SubSeq(s, 1, Len(s) - 1)) + digitValue(s[Len(s)])

isLeap(y) == (y % 4 = 0 /\ y % 100 # 0) \/ y % 400 = 0

daysInMonth(y, m) ==
    IF m = 2 THEN (IF isLeap(y) THEN 29 ELSE 28)
    ELSE IF m \in {4, 6, 9, 11} THEN 30 ELSE 31

\* days from 1970-01-01 to the civil date y-m-d (proleptic Gregorian)
daysFromCivil(y, m, d) ==
    LET yy  == IF m <= 2 THEN y - 1 ELSE y
        era == yy \div 400
        yoe == yy - era * 400
        mp  == IF m > 2 THEN m - 3 ELSE m + 9
        doy == (153 * mp + 2) \div 5 + d - 1
        doe == yoe * 365 + yoe \div 4 - yoe \div 100 + doy
    IN era * 146097 + doe - 719468

\* the civil date of a day number, <<y, m, d>>
civilFromDays(z0) ==
    LET z   == z0 + 719468
        era == z \div 146097
        doe == z - era * 146097
        yoe == (doe - doe \div 1460 + doe \div 36524 - doe \div 146096) \div 365
        doy == doe - (365 * yoe + yoe \div 4 - yoe \div 100)
        mp  == (5 * doy + 2) \div 153
        d   == doy - (153 * mp + 2) \div 5 + 1
        m   == IF mp < 10 THEN mp + 3 ELSE mp - 9
        y   == yoe + era * 400
    IN <<IF m <= 2 THEN y + 1 ELSE y, m, d>>

DaySecs == 24 * 60 * 60

\* tzinfo values: none (naive), a fixed offset (timezone(timedelta)), a ZoneInfo
NoZone == [name |-> "", std |-> 0, dst |-> 0, dstStart |-> 0, dstEnd |-> 0]
TzNone == [kind |-> "none", off |-> 0, z |-> NoZone]
TzFixed(off) == [kind |-> "fixed", off |-> off, z |-> NoZone]
TzZone(z) == [kind |-> "zone", off |-> 0, z |-> z]

NoDatetime ==
    [y |-> 0, mo |-> 0, d |-> 0, h |-> 0, mi |-> 0, s |-> 0, fold |-> 0,
     tzinfo |-> TzNone]

\* the wall clock of a datetime as seconds, read as if it were UTC
wallSecs(dt) ==
    daysFromCivil(dt.y, dt.mo, dt.d) * DaySecs + dt.h * 3600 + dt.mi * 60 + dt.s

fromWallSecs(w, fold, tzinfo) ==
    LET c   == civilFromDays(w \div DaySecs)
        rem == w % DaySecs
    IN [y |-> c[1], mo |-> c[2], d |-> c[3], h |-> rem \div 3600,
        mi |-> (rem % 3600) \div 60, s |-> rem % 60, fold |-> fold,
        tzinfo |-> tzinfo]

\* ZoneInfo.utcoffset of a wall clock: a transition at UTC instant t from
\* offset a to offset b applies from wall time t + max(a, b) when fold = 0
\* and from t + min(a, b) when fold = 1
zoneOffsetWall(z, w, fold) ==
    LET hi == IF z.dst > z.std THEN z.dst ELSE z.std
        lo == IF z.dst > z.std THEN z.std ELSE z.dst
        sh == IF fold = 0 THEN hi ELSE lo
    IN IF z.dstStart + sh <= w /\ w < z.dstEnd + sh THEN z.dst ELSE z.std

\* the offset in force at a UTC instant
zoneOffsetUtc(z, u) == IF z.dstStart <= u /\ u < z.dstEnd THEN z.dst ELSE z.std

\* ZoneInfo.fromutc: the local datetime of a UTC instant; fold = 1 in the
\* hour repeated after the clocks went back
fromutc(z, u) ==
    LET off  == zoneOffsetUtc(z, u)
        fold == IF z.dst > z.std /\ z.dstEnd <= u /\ u < z.dstEnd + (z.dst - z.std)
                THEN 1 ELSE 0
    IN fromWallSecs(u + off, fold, TzZone(z))

utcoffset(dt) ==
    IF dt.tzinfo.kind = "fixed" THEN dt.tzinfo.off
    ELSE zoneOffsetWall(dt.tzinfo.z, wallSecs(dt), dt.fold)

\* dt.astimezone(timezone.utc).timestamp() of an aware datetime, in seconds
timestamp(dt) == wallSecs(dt) - utcoffset(dt)

\* dt.astimezone(z) of an aware datetime
astimezone(dt, z) == fromutc(z, timestamp(dt))

\* dt.replace(tzinfo=z)
replaceTzinfo(dt, z) == [dt EXCEPT !.tzinfo = TzZone(z)]

\* datetime.fromisoformat for the forms YYYY-MM-DD, YYYY-MM-DD?HH:MM:SS and
\* YYYY-MM-DD?HH:MM:SS(+|-)HH:MM; [ok |-> FALSE] stands for ValueError.
\* (Python accepts a few more forms; no modelled input has one of them.)
fromisoformat(s) ==
    LET n      == Len(s)
        shape  == /\ n \in {10, 19, 25}
                  /\ allDigits(SubSeq(s, 1, 4)) /\ s[5] = "-"
                  /\ allDigits(SubSeq(s, 6, 7)) /\ s[8] = "-"
                  /\ allDigits(SubSeq(s, 9, 10))
                  /\ n >= 19 =>
                        /\ allDigits(SubSeq(s, 12, 13)) /\ s[14] = ":"
                        /\ allDigits(SubSeq(s, 15, 16)) /\ s[17] = ":"
                        /\ allDigits(SubSeq(s, 18, 19))
                  /\ n = 25 =>
                        /\ s[20] \in {"+", "-"}
                        /\ allDigits(SubSeq(s, 21, 22)) /\ s[23] = ":"
                        /\ allDigits(SubSeq(s, 24, 25))
        y      == toInt(SubSeq(s, 1, 4))
        mo     == toInt(SubSeq(s, 6, 7))
        d      == toInt(SubSeq(s, 9, 10))
        h      == IF n >= 19 THEN toInt(SubSeq(s, 12, 13)) ELSE 0
        mi     == IF n >= 19 THEN toInt(SubSeq(s, 15, 16)) ELSE 0
        sec    == IF n >= 19 THEN toInt(SubSeq(s, 18, 19)) ELSE 0
        oh     == toInt(SubSeq(s, 21, 22))
        om     == toInt(SubSeq(s, 24, 25))
        off    == (IF s[20] = "-" THEN -1 ELSE 1) * (oh * 3600 + om * 60)
        valid  == /\ shape
                  /\ y >= 1 /\ mo \in 1..12 /\ d >= 1 /\ d <= daysInMonth(y, mo)
                  /\ h <= 23 /\ mi <= 59 /\ sec <= 59
                  /\ n = 25 => oh * 3600 + om * 60 < DaySecs
    IN IF valid
       THEN [ok |-> TRUE,
             dt |-> [y |-> y, mo |-> mo, d |-> d, h |-> h, mi |-> mi, s |-> sec,
                     fold |-> 0,
                     tzinfo |-> IF n = 25 THEN TzFixed(off) ELSE TzNone]]
       ELSE [ok |-> FALSE, dt |-> NoDatetime]

pad2(n) == <<Digits[((n \div 10) % 10) + 1], Digits[(n % 10) + 1]>>

pad4(n) == pad2(n \div 100) \o pad2(n % 100)

DayNames == <<<<"T","h","u","r","s","d","a","y">>,
             <<"F","r","i","d","a","y">>,
             <<"S","a","t","u","r","d","a","y">>,
             <<"S","u","n","d","a","y">>,
             <<"M","o","n","d","a","y">>,
             <<"T","u","e","s","d","a","y">>,
             <<"W","e","d","n","e","s","d","a","y">>>>

MonthNames == <<<<"J","a","n","u","a","r","y">>,
               <<"F","e","b","r","u","a","r","y">>,
               <<"M","a","r","c","h">>,
               <<"A","p","r","i","l">>,
               <<"M","a","y">>,
               <<"J","u","n","e">>,
               <<"J","u","l","y">>,
               <<"A","u","g","u","s","t">>,
               <<"S","e","p","t","e","m","b","e","r">>,
               <<"O","c","t","o","b","e","r">>,
               <<"N","o","v","e","m","b","e","r">>,
               <<"D","e","c","e","m","b","e","r">>>>

\* "%I:%M %p"
_format_time_local_hm(dt_local) ==
    LET h12 == IF dt_local.h % 12 = 0 THEN 12 ELSE dt_local.h % 12
    IN pad2(h12) \o <<":">> \o pad2(dt_local.mi) \o <<" ">>
       \o (IF dt_local.h < 12 THEN <<"A","M">> ELSE <<"P","M">>)

\* "%A, %B %d, %Y at %I:%M %p"; 1970-01-01 was a Thursday
_format_time_disp(dt_local) ==
    DayNames[(daysFromCivil(dt_local.y, dt_local.mo, dt_local.d) % 7) + 1]
    \o <<",", " ">> \o MonthNames[dt_local.mo] \o <<" ">> \o pad2(dt_local.d)
    \o <<",", " ">> \o pad4(dt_local.y) \o <<" ","a","t"," ">>
    \o _format_time_local_hm(dt_local)

\* "%Y-%m-%dT%H:%M:%S"
_format_time_iso_wall(dt_local) ==
    pad4(dt_local.y) \o <<"-">> \o pad2(dt_local.mo) \o <<"-">> \o pad2(dt_local.d)
    \o <<"T">> \o pad2(dt_local.h) \o <<":">> \o pad2(dt_local.mi) \o <<":">>
    \o pad2(dt_local.s)

\* str < str for the characters of the timeISO format, by code point
ord(c) ==
    IF isDigit(c) THEN 48 + digitValue(c)
    ELSE IF c = "-" THEN 45 ELSE IF c = ":" THEN 58 ELSE 84

RECURSIVE strLess(_, _)
strLess(a, b) ==
    IF b = <<>> THEN FALSE
    ELSE IF a = <<>> THEN TRUE
    ELSE IF Head(a) = Head(b) THEN strLess(Tail(a), Tail(b))
    ELSE ord(Head(a)) < ord(Head(b))

(***************************************************************************)
(* ZoneInfo(tz_name): the zones of the time zone database that the model   *)
(* knows, with their 2025 rules (offsets in seconds, transitions as UTC    *)
(* instants).  Any other key raises ZoneInfoNotFoundError.                 *)
(***************************************************************************)
ZoneTable ==
    {[name |-> "America/Los_Angeles", std |-> -28800, dst |-> -25200,
      dstStart |-> 1741514400, dstEnd |-> 1762074000],
     [name |-> "UTC", std |-> 0, dst |-> 0, dstStart |-> 0, dstEnd |-> 0],
     [name |-> "Asia/Tokyo", std |-> 32400, dst |-> 32400,
      dstStart |-> 0, dstEnd |-> 0]}

zoneKnown(name) == \E z \in ZoneTable : z.name = name

ZoneInfo(name) == CHOOSE z \in ZoneTable : z.name = name

\* int(today_1am_local.astimezone(timezone.utc).timestamp() * 1000), / 1000
_today_1am_epoch_ms(z, clock) ==
    LET now_local       == fromutc(z, clock)
        today_1am_local == [now_local EXCEPT !.h = 1, !.mi = 0, !.s = 0,
                                             !.fold = 0]
    IN timestamp(today_1am_local)

(***************************************************************************)
(* Loosely typed values: a field of a raw event is absent (or None), a     *)
(* str, a number or a native datetime.                                     *)
(***************************************************************************)
Absent == [tag |-> "none", str |-> <<>>, num |-> 0, dt |-> NoDatetime]
Str(s) == [tag |-> "str", str |-> s, num |-> 0, dt |-> NoDatetime]
Num(n) == [tag |-> "num", str |-> <<>>, num |-> n, dt |-> NoDatetime]
Dt(d)  == [tag |-> "datetime", str |-> <<>>, num |-> 0, dt |-> d]

\* Python's truth value of a field
truthy(v) ==
    IF v.tag = "none" THEN FALSE
    ELSE IF v.tag = "str" THEN v.str # <<>>
    ELSE IF v.tag = "num" THEN v.num # 0
    ELSE TRUE

\* Python's truth value of a str-or-None held as a TLA+ string
truthyStr(s) == s # NoneStr /\ s # ""

\* (v or "").strip(): ok = FALSE stands for the AttributeError of a truthy
\* value that is no str
orEmptyStrip(v) ==
    IF ~truthy(v) THEN [ok |-> TRUE, str |-> <<>>]
    ELSE IF v.tag = "str" THEN [ok |-> TRUE, str |-> strip(v.str)]
    ELSE [ok |-> FALSE, str |-> <<>>]

\* [ok |-> FALSE] stands for the result None
_ensure_datetime(value) ==
    IF value.tag = "none" THEN [ok |-> FALSE, dt |-> NoDatetime]
    ELSE IF value.tag = "datetime" THEN [ok |-> TRUE, dt |-> value.dt]
    ELSE IF value.tag = "str"
    THEN LET s0 == strip(value.str)
             s  == IF endswith(s0, <<"Z">>)
                   THEN SubSeq(s0, 1, Len(s0) - 1) \o <<"+","0","0",":","0","0">>
                   ELSE s0
         IN fromisoformat(s)
    ELSE [ok |-> FALSE, dt |-> NoDatetime]

(***************************************************************************)
(* Configuration.  A document is what yaml.safe_load gives: default_tz is  *)
(* MissingKey when the key is absent; meetup_groups and event_config are   *)
(* ordered mappings, held as sequences of entries (a dict keeps insertion  *)
(* order).  A rule is its two lookups: thread_id (NoneStr when absent) and *)
(* reminder (FALSE when absent).                                           *)
(***************************************************************************)
MissingKey == "<missing>"

DefaultKey == <<"d","e","f","a","u","l","t">>

EmptyRule == [thread_id |-> NoneStr, reminder |-> FALSE]

load_config(doc) ==
    [default_tz    |-> IF doc.default_tz = MissingKey
                       THEN "America/Los_Angeles" ELSE doc.default_tz,
     meetup_groups |-> doc.meetup_groups,
     event_config  |-> doc.event_config]

\* the rule stored at a key, dict.get(key, {}) or {}
RECURSIVE getRule(_, _)
getRule(c, key) ==
    IF c = <<>> THEN EmptyRule
    ELSE IF Head(c).key = key THEN Head(c).rule
    ELSE getRule(Tail(c), key)

\* the for loop of _pick_event_cfg from position i on
RECURSIVE pickFrom(_, _, _, _)
pickFrom(title_lc, c, i, sofar) ==
    IF i > Len(c) THEN sofar
    ELSE IF c[i].key = DefaultKey THEN pickFrom(title_lc, c, i + 1, sofar)
    ELSE IF contains(title_lc, lower(c[i].key)) THEN c[i].rule
    ELSE pickFrom(title_lc, c, i + 1, sofar)

\* the loop without its break
RECURSIVE pickFromNoBreak(_, _, _, _)
pickFromNoBreak(title_lc, c, i, sofar) ==
    IF i > Len(c) THEN sofar
    ELSE IF c[i].key = DefaultKey THEN pickFromNoBreak(title_lc, c, i + 1, sofar)
    ELSE IF contains(title_lc, lower(c[i].key))
         THEN pickFromNoBreak(title_lc, c, i + 1, c[i].rule)
    ELSE pickFromNoBreak(title_lc, c, i + 1, sofar)

_pick_event_cfg_no_break(title, c) ==
    pickFromNoBreak(lower(title), c, 1, getRule(c, DefaultKey))

_pick_event_cfg(title, c) == pickFrom(lower(title), c, 1, getRule(c, DefaultKey))

\* meetup_groups.get(group)
RECURSIVE groupsGet(_, _)
groupsGet(groups, name) ==
    IF groups = <<>> THEN NoneStr
    ELSE IF Head(groups).name = name THEN Head(groups).url
    ELSE groupsGet(Tail(groups), name)

\* the single-group default taken whenever any group is configured
_determine_meetup_url_any_group(groups, g, u) ==
    IF truthyStr(u) THEN [ok |-> TRUE, url |-> u, err |-> "none"]
    ELSE IF truthyStr(g)
    THEN LET found == groupsGet(groups, g)
         IN IF ~truthyStr(found)
            THEN [ok |-> FALSE, url |-> NoneStr, err |-> "UnknownGroup"]
            ELSE [ok |-> TRUE, url |-> found, err |-> "none"]
    ELSE IF Len(groups) >= 1
    THEN [ok |-> TRUE, url |-> groups[1].url, err |-> "none"]
    ELSE [ok |-> FALSE, url |-> NoneStr, err |-> "MissingSource"]

\* the result: a URL, or the HTTPException raised
_determine_meetup_url(groups, g, u) ==
    IF truthyStr(u) THEN [ok |-> TRUE, url |-> u, err |-> "none"]
    ELSE IF truthyStr(g)
    THEN LET found == groupsGet(groups, g)
         IN IF ~truthyStr(found)
            THEN [ok |-> FALSE, url |-> NoneStr, err |-> "UnknownGroup"]
            ELSE [ok |-> TRUE, url |-> found, err |-> "none"]
    ELSE IF Len(groups) = 1
    THEN [ok |-> TRUE, url |-> groups[1].url, err |-> "none"]
    ELSE [ok |-> FALSE, url |-> NoneStr, err |-> "MissingSource"]

\* the status_code of the response that an exception gives: the code's
\* HTTPExceptions, and 500 for an exception nothing catches
status_code(exc) ==
    IF exc \in {"UnknownGroup", "MissingSource", "InvalidTimeZone"} THEN 400
    ELSE IF exc = "TooLarge" THEN 413
    ELSE IF exc = "FetchError" THEN 502
    ELSE 500

(***************************************************************************)
(* The body of the for loop of events()                                    *)
(***************************************************************************)
\* event_ms < baseline_ms
isPastOrAtBaseline(event_ms, base) == event_ms <= base

isPast(event_ms, base) == event_ms < base

\* the zone attached without looking at tzinfo
attachZoneAlwaysReplace(starts_at, z) == replaceTzinfo(starts_at, z)

\* starts_local
attachZone(starts_at, z) ==
    IF starts_at.tzinfo.kind = "none"
    THEN replaceTzinfo(starts_at, z)
    ELSE astimezone(starts_at, z)

\* one trailing ")" goes, no more
stripOneParen(s) ==
    IF s # <<>> /\ s[Len(s)] = ")" THEN SubSeq(s, 1, Len(s) - 1) ELSE s

\* m.group(0).rstrip(")")
stripLinkTail(s) == rstripParen(s)

\* link; ok = FALSE stands for the AttributeError of a url or description
\* that is truthy and no str
resolveLink(ev) ==
    LET declared == orEmptyStrip(ev.url)
    IN IF ~declared.ok THEN [ok |-> FALSE, link |-> <<>>]
       ELSE IF declared.str # <<>> THEN [ok |-> TRUE, link |-> declared.str]
       ELSE LET desc == orEmptyStrip(ev.description)
            IN IF ~desc.ok THEN [ok |-> FALSE, link |-> <<>>]
               ELSE LET m == searchUrl(desc.str)
                    IN [ok |-> TRUE,
                        link |-> IF m # <<>> THEN stripLinkTail(m) ELSE <<>>]

NoItem ==
    [main |-> <<>>, url |-> <<>>, timeDisp |-> <<>>, timeLocalHM |-> <<>>,
     timeISO |-> <<>>, isAllDay |-> FALSE, daysDiff |-> 0,
     thread_id |-> NoneStr, reminder |-> FALSE, src |-> 0]

\* One pass of the loop body for raw_events[i]: the event is skipped (a
\* continue), an item is appended, or an exception leaves the handler.
\* The field src of an item is not in the code's record: it is the position
\* in raw_events of the event the item was built from.
loopBody(ev, i, z, base, ecfg, prev) ==
    LET title == orEmptyStrip(ev.title)
    IN IF ~title.ok
       THEN [kind |-> "raise", item |-> NoItem, chosen |-> prev]
       ELSE IF title.str = <<>>
       THEN [kind |-> "skip", item |-> NoItem, chosen |-> prev]
       ELSE LET starts_at == _ensure_datetime(ev.starts_at)
            IN IF ~starts_at.ok
               THEN [kind |-> "skip", item |-> NoItem, chosen |-> prev]
               ELSE LET starts_local == attachZone(starts_at.dt, z)
                        event_ms     == timestamp(starts_local)
                    IN IF isPast(event_ms, base)
                       THEN [kind |-> "skip", item |-> NoItem, chosen |-> prev]
                       ELSE LET days_diff == (event_ms - base) \div DaySecs
                                link      == resolveLink(ev)
                                rule      == _pick_event_cfg(title.str, ecfg)
                            IN IF ~link.ok
                               THEN [kind |-> "raise", item |-> NoItem,
                                     chosen |-> prev]
                               ELSE [kind |-> "item",
                                     item |->
                                       [main |-> title.str,
                                        url |-> link.link,
                                        timeDisp |-> _format_time_disp(starts_local),
                                        timeLocalHM |->
                                            _format_time_local_hm(starts_local),
                                        timeISO |->
                                            _format_time_iso_wall(starts_local),
                                        isAllDay |-> FALSE,
                                        daysDiff |-> days_diff,
                                        thread_id |->
                                            IF truthyStr(rule.thread_id)
                                            THEN rule.thread_id ELSE NoneStr,
                                        reminder |-> rule.reminder,
                                        src |-> i],
                                     chosen |-> rule]

(***************************************************************************)
(* items.sort(key=lambda e: e["timeISO"]): list.sort is stable, so the     *)
(* result is that of inserting each item, in order, behind every item      *)
(* whose key is not greater.                                               *)
(***************************************************************************)
RECURSIVE insertBehind(_, _)
insertBehind(sorted, e) ==
    IF sorted = <<>> THEN <<e>>
    ELSE IF strLess(e.timeISO, Head(sorted).timeISO) THEN <<e>> \o sorted
    ELSE <<Head(sorted)>> \o insertBehind(Tail(sorted), e)

\* an unstable insertion: in front of the items with an equal key
RECURSIVE insertInFront(_, _)
insertInFront(sorted, e) ==
    IF sorted = <<>> THEN <<e>>
    ELSE IF ~strLess(Head(sorted).timeISO, e.timeISO) THEN <<e>> \o sorted
    ELSE <<Head(sorted)>> \o insertInFront(Tail(sorted), e)

RECURSIVE sortUnstable(_)
sortUnstable(xs) ==
    IF xs = <<>> THEN <<>>
    ELSE insertInFront(sortUnstable(SubSeq(xs, 1, Len(xs) - 1)), xs[Len(xs)])

RECURSIVE sortByTimeISO(_)
sortByTimeISO(xs) ==
    IF xs = <<>> THEN <<>>
    ELSE insertBehind(sortByTimeISO(SubSeq(xs, 1, Len(xs) - 1)), xs[Len(xs)])

(***************************************************************************)
(* _fetch_html                                                             *)
(***************************************************************************)
max_bytes == 3000000

\* f.read(max_bytes + 1) of a body of n bytes: the number of bytes read
readUpTo(n) == IF n <= max_bytes + 1 THEN n ELSE max_bytes + 1

exceedsCapOrAt(n) == n >= max_bytes

\* len(data) > max_bytes
exceedsCap(n) == n > max_bytes

\* where a failed _fetch_html leaves the request: both except clauses of
\* events() raise, so the handler is left
afterFetchFailureGoOn == "parse"

afterFetchFailure == "done"

(***************************************************************************)
(* Inputs                                                                  *)
(***************************************************************************)
MaxEvents == 2   \* most raw events on a page
MaxKeys == 3     \* most keys of an event_config drawn for the rule matcher

RuleFoo == [thread_id |-> "t-foo", reminder |-> TRUE]
RuleBar == [thread_id |-> "t-bar", reminder |-> FALSE]
RuleO   == [thread_id |-> "", reminder |-> TRUE]
RuleDefault == [thread_id |-> "t-default", reminder |-> FALSE]

KeyFoo == <<"F","o","o">>
KeyBar == <<"B","A","R">>
KeyO   == <<"o">>

GroupPy == [name |-> "py", url |-> "https://meetup.test/py"]
GroupJs == [name |-> "js", url |-> "https://meetup.test/js"]

\* configuration documents
DocA ==
    [loadable |-> TRUE, default_tz |-> MissingKey,
     meetup_groups |-> <<GroupPy>>,
     event_config |-> <<[key |-> KeyFoo, rule |-> RuleFoo],
                        [key |-> DefaultKey, rule |-> RuleDefault]>>]
DocB ==
    [loadable |-> TRUE, default_tz |-> "UTC",
     meetup_groups |-> <<GroupPy, GroupJs>>,
     event_config |-> <<>>]
DocC ==
    [loadable |-> TRUE, default_tz |-> "Asia/Tokyo",
     meetup_groups |-> <<[name |-> "py", url |-> "https://meetup.test/python"]>>,
     event_config |-> <<[key |-> KeyBar, rule |-> RuleBar]>>]
DocBroken ==
    [loadable |-> FALSE, default_tz |-> MissingKey, meetup_groups |-> <<>>,
     event_config |-> <<>>]

\* raw events, as the parser may give them
\* "2025-06-01T09:00:00Z"
StartZ ==
    <<"2","0","2","5","-","0","6","-","0","1","T","0","9",":","0","0",":",
      "0","0","Z">>
\* "Join us (https://x.test/e/1))"
DescParens ==
    <<"J","o","i","n"," ","u","s"," ","(","h","t","t","p","s",":","/","/",
      "x",".","t","e","s","t","/","e","/","1",")",")">>
\* "Py Night"
TitlePyNight ==
    <<"P","y"," ","N","i","g","h","t">>
\* " Foo Bar "
TitleFooBar ==
    <<" ","F","o","o"," ","B","a","r"," ">>
\* "2025-06-01T02:00:00"
Start0200 ==
    <<"2","0","2","5","-","0","6","-","0","1","T","0","2",":","0","0",":",
      "0","0">>
\* " https://m.test/2 "
UrlDeclared ==
    <<" ","h","t","t","p","s",":","/","/","m",".","t","e","s","t","/","2",
      " ">>
\* "2025-06-02T10:00:00"
Start1000 ==
    <<"2","0","2","5","-","0","6","-","0","2","T","1","0",":","0","0",":",
      "0","0">>
\* "Bad date"
TitleBadDate ==
    <<"B","a","d"," ","d","a","t","e">>
\* "not-a-date"
StartBad ==
    <<"n","o","t","-","a","-","d","a","t","e">>
\* "Old"
TitleOld ==
    <<"O","l","d">>
\* "2025-05-30T23:00:00"
StartOld ==
    <<"2","0","2","5","-","0","5","-","3","0","T","2","3",":","0","0",":",
      "0","0">>
\* "see http://old.test/a) and more"
DescOld ==
    <<"s","e","e"," ","h","t","t","p",":","/","/","o","l","d",".","t","e",
      "s","t","/","a",")"," ","a","n","d"," ","m","o","r","e">>
\* "Edge"
TitleEdge ==
    <<"E","d","g","e">>
\* "2025-06-01T01:00:00"
Start0100 ==
    <<"2","0","2","5","-","0","6","-","0","1","T","0","1",":","0","0",":",
      "0","0">>
\* "Numeric url"
TitleNumericUrl ==
    <<"N","u","m","e","r","i","c"," ","u","r","l">>
\* "Later foo"
TitleLater ==
    <<"L","a","t","e","r"," ","f","o","o">>
\* "no link here"
DescNoLink ==
    <<"n","o"," ","l","i","n","k"," ","h","e","r","e">>
\* "No start"
TitleNoStart ==
    <<"N","o"," ","s","t","a","r","t">>
\* "Odd start"
TitleOddStart ==
    <<"O","d","d"," ","s","t","a","r","t">>

RawEvent(t, s, u, d) ==
    [title |-> t, starts_at |-> s, url |-> u, description |-> d]

EventPool ==
    <<RawEvent(Str(TitlePyNight), Str(StartZ), Absent, Str(DescParens)),
      RawEvent(Str(TitleFooBar), Str(Start0200), Str(UrlDeclared), Str(DescOld)),
      RawEvent(Str(<<" ", " ">>), Str(Start1000), Absent, Absent),
      RawEvent(Str(TitleBadDate), Str(StartBad), Absent, Absent),
      RawEvent(Str(TitleOld), Str(StartOld), Absent, Str(<<>>)),
      RawEvent(Str(TitleEdge), Str(Start0100), Str(<<>>), Str(DescOld)),
      RawEvent(Str(TitleNumericUrl), Str(Start1000), Num(123), Absent),
      RawEvent(Str(TitleLater),
               Dt([y |-> 2025, mo |-> 6, d |-> 3, h |-> 18, mi |-> 30, s |-> 0,
                   fold |-> 0, tzinfo |-> TzFixed(-25200)]),
               Absent, Str(DescNoLink)),
      RawEvent(Absent, Str(Start1000), Absent, Absent),
      RawEvent(Str(TitleNoStart), Absent, Absent, Absent),
      RawEvent(Str(TitleOddStart), Num(20250601), Absent, Absent)>>

\* the sequences of at most n distinct members of 1..m
distinctSeqs(m, n) ==
    {s \in UNION {[1..k -> 1..m] : k \in 0..n} :
        \A i, j \in 1..Len(s) : i # j => s[i] # s[j]}

EventSeqs ==
    {[i \in 1..Len(s) |-> EventPool[s[i]]] :
        s \in distinctSeqs(Len(EventPool), MaxEvents)}

Page(t, n, p, evs) == [transport_ok |-> t, length |-> n, parse_ok |-> p, events |-> evs]

\* remote pages: unreachable; bodies around the cap; an unparsable body;
\* bodies that parse
PagePool ==
    {Page(FALSE, 0, FALSE, <<>>)}
    \cup {Page(TRUE, n, TRUE, <<>>) :
            n \in {0, max_bytes - 1, max_bytes + 1, max_bytes + 2, 2 * max_bytes}}
    \cup {Page(TRUE, 1000, FALSE, <<>>)}
    \cup {Page(TRUE, max_bytes, TRUE, evs) : evs \in EventSeqs}

\* the pages a source may serve: the full pool at the first group's URL,
\* one page that parses anywhere else
SmallPagePool == {Page(TRUE, 1000, TRUE, <<EventPool[1], EventPool[2]>>)}

Web(u) == IF u = GroupPy.url THEN PagePool ELSE SmallPagePool

NoPage == Page(FALSE, 0, FALSE, <<>>)

\* clock readings: 2025-06-01T12:00:00Z and 2025-06-01T03:00:00Z
ClockPool == {1748779200, 1748746800}

Request(g, u, t) == [group |-> g, url |-> u, tz |-> t]

RequestPool ==
    {Request(NoneStr, NoneStr, NoneStr),
     Request("py", NoneStr, "UTC"),
     Request("nope", NoneStr, NoneStr),
     Request(NoneStr, "https://other.test/events", "Mars/Phobos"),
     Request("", "", "America/Los_Angeles")}

(***************************************************************************)
(* The request: events(), one step per statement that reads or writes      *)
(* shared state or calls a collaborator.                                   *)
(***************************************************************************)
NoConfig == [default_tz |-> NoneStr, meetup_groups |-> <<>>, event_config |-> <<>>]

\* the mapping events() reads its settings from: its local cfg, the value
\* _get_config returned
settingsGlobal == CONFIG

settings == cfg

\* _get_config, the assignment CONFIG = load_config()
GetConfigStore ==
    /\ pc = "get_config"
    /\ IF RELOAD_CONFIG_EACH_REQUEST
       THEN IF configFile.loadable
            THEN /\ CONFIG' = load_config(configFile)
                 /\ pc' = "get_config_return"
                 /\ raised' = raised
            ELSE /\ CONFIG' = CONFIG
                 /\ pc' = "done"
                 /\ raised' = "RuntimeError"
       ELSE /\ CONFIG' = CONFIG
            /\ pc' = "get_config_return"
            /\ raised' = raised
    /\ UNCHANGED <<configFile, RELOAD_CONFIG_EACH_REQUEST, page, now, group,
                  url, tz, cfg, default_tz, tz_name, meetup_groups,
                  meetup_url, zone, baseline_ms, html, raw_events, event_cfg,
                  idx, chosen, items, returned, fetchCalls, parseCalls,
                  buffered>>

\* _get_config, return CONFIG; cfg = ...
GetConfigReturn ==
    /\ pc = "get_config_return"
    /\ cfg' = CONFIG
    /\ pc' = "default_tz"
    /\ UNCHANGED <<configFile, CONFIG, RELOAD_CONFIG_EACH_REQUEST, page, now,
                  group, url, tz, default_tz, tz_name, meetup_groups,
                  meetup_url, zone, baseline_ms, html, raw_events, event_cfg,
                  idx, chosen, items, raised, returned, fetchCalls,
                  parseCalls, buffered>>

\* default_tz = cfg.get("default_tz", ...); tz_name = tz or default_tz
ReadDefaultTz ==
    /\ pc = "default_tz"
    /\ default_tz' = settings.default_tz
    /\ tz_name' = IF truthyStr(tz) THEN tz ELSE settings.default_tz
    /\ pc' = "determine_url"
    /\ UNCHANGED <<configFile, CONFIG, RELOAD_CONFIG_EACH_REQUEST, page, now,
                  group, url, tz, cfg, meetup_groups, meetup_url, zone,
                  baseline_ms, html, raw_events, event_cfg, idx, chosen,
                  items, raised, returned, fetchCalls, parseCalls, buffered>>

\* meetup_url = _determine_meetup_url(cfg, group, url)
DetermineMeetupUrl ==
    /\ pc = "determine_url"
    /\ meetup_groups' = settings.meetup_groups
    /\ LET r == _determine_meetup_url(settings.meetup_groups, group, url)
       IN IF r.ok
          THEN /\ meetup_url' = r.url
               /\ pc' = "zone"
               /\ raised' = raised
          ELSE /\ meetup_url' = meetup_url
               /\ pc' = "done"
               /\ raised' = r.err
    /\ UNCHANGED <<configFile, CONFIG, RELOAD_CONFIG_EACH_REQUEST, page, now,
                  group, url, tz, cfg, default_tz, tz_name, zone,
                  baseline_ms, html, raw_events, event_cfg, idx, chosen,
                  items, returned, fetchCalls, parseCalls, buffered>>

\* zone = ZoneInfo(tz_name), any exception made a 400
ResolveZone ==
    /\ pc = "zone"
    /\ IF zoneKnown(tz_name)
       THEN /\ zone' = ZoneInfo(tz_name)
            /\ pc' = "baseline"
            /\ raised' = raised
       ELSE /\ zone' = zone
            /\ pc' = "done"
            /\ raised' = "InvalidTimeZone"
    /\ UNCHANGED <<configFile, CONFIG, RELOAD_CONFIG_EACH_REQUEST, page, now,
                  group, url, tz, cfg, default_tz, tz_name, meetup_groups,
                  meetup_url, baseline_ms, html, raw_events, event_cfg, idx,
                  chosen, items, returned, fetchCalls, parseCalls, buffered>>

\* baseline_ms = _today_1am_epoch_ms(zone), which reads the clock
Baseline ==
    /\ pc = "baseline"
    /\ \E clock \in ClockPool :
          /\ now' = clock
          /\ baseline_ms' = _today_1am_epoch_ms(zone, clock)
    /\ pc' = "fetch"
    /\ UNCHANGED <<configFile, CONFIG, RELOAD_CONFIG_EACH_REQUEST, page,
                  group, url, tz, cfg, default_tz, tz_name, meetup_groups,
                  meetup_url, zone, html, raw_events, event_cfg, idx, chosen,
                  items, raised, returned, fetchCalls, parseCalls, buffered>>

\* html = _fetch_html(meetup_url) inside its try: the source serves one of
\* its pages; a transport failure is made a 502, the 413 of _fetch_html is
\* raised again as it is
Fetch ==
    /\ pc = "fetch"
    /\ fetchCalls' = fetchCalls + 1
    /\ \E served \in Web(meetup_url) :
          /\ page' = served
          /\ IF ~served.transport_ok
             THEN /\ raised' = "FetchError"
                  /\ pc' = afterFetchFailure
                  /\ UNCHANGED <<html, buffered>>
             ELSE LET data == readUpTo(served.length)
                  IN /\ buffered' = IF data > buffered THEN data ELSE buffered
                     /\ IF exceedsCap(data)
                        THEN /\ raised' = "TooLarge"
                             /\ pc' = afterFetchFailure
                             /\ html' = html
                        ELSE /\ raised' = raised
                             /\ pc' = "parse"
                             /\ html' = data
    /\ UNCHANGED <<configFile, CONFIG, RELOAD_CONFIG_EACH_REQUEST, now, group,
                   url, tz, cfg, default_tz, tz_name, meetup_groups,
                   meetup_url, zone, baseline_ms, raw_events, event_cfg, idx,
                   chosen, items, returned, parseCalls>>

\* raw_events = list(teemup_parse(html)), any exception made a 500
Parse ==
    /\ pc = "parse"
    /\ parseCalls' = parseCalls + 1
    /\ IF page.parse_ok
       THEN /\ raw_events' = page.events
            /\ pc' = "event_cfg"
            /\ raised' = raised
       ELSE /\ raw_events' = raw_events
            /\ pc' = "done"
            /\ raised' = "ParseError"
    /\ UNCHANGED <<configFile, CONFIG, RELOAD_CONFIG_EACH_REQUEST, page, now,
                  group, url, tz, cfg, default_tz, tz_name, meetup_groups,
                  meetup_url, zone, baseline_ms, html, event_cfg, idx,
                  chosen, items, returned, fetchCalls, buffered>>

\* event_cfg = cfg.get("event_config", {}) or {}; items = []
ReadEventConfig ==
    /\ pc = "event_cfg"
    /\ event_cfg' = settings.event_config
    /\ items' = <<>>
    /\ idx' = 1
    /\ pc' = "loop"
    /\ UNCHANGED <<configFile, CONFIG, RELOAD_CONFIG_EACH_REQUEST, page, now,
                  group, url, tz, cfg, default_tz, tz_name, meetup_groups,
                  meetup_url, zone, baseline_ms, html, raw_events, chosen,
                  raised, returned, fetchCalls, parseCalls, buffered>>

\* one pass of for ev in raw_events
LoopStep ==
    /\ pc = "loop"
    /\ idx <= Len(raw_events)
    /\ LET r == loopBody(raw_events[idx], idx, zone, baseline_ms, event_cfg, chosen)
       IN /\ chosen' = r.chosen
          /\ items' = IF r.kind = "item" THEN Append(items, r.item) ELSE items
          /\ IF r.kind = "raise"
             THEN /\ raised' = "AttributeError"
                  /\ pc' = "done"
                  /\ idx' = idx
             ELSE /\ raised' = raised
                  /\ pc' = pc
                  /\ idx' = idx + 1
    /\ UNCHANGED <<configFile, CONFIG, RELOAD_CONFIG_EACH_REQUEST, page, now,
                  group, url, tz, cfg, default_tz, tz_name, meetup_groups,
                  meetup_url, zone, baseline_ms, html, raw_events, event_cfg,
                  returned, fetchCalls, parseCalls, buffered>>

\* items.sort(key=...); return items
SortAndReturn ==
    /\ pc = "loop"
    /\ idx > Len(raw_events)
    /\ items' = sortByTimeISO(items)
    /\ returned' = TRUE
    /\ pc' = "done"
    /\ UNCHANGED <<configFile, CONFIG, RELOAD_CONFIG_EACH_REQUEST, page, now,
                  group, url, tz, cfg, default_tz, tz_name, meetup_groups,
                  meetup_url, zone, baseline_ms, html, raw_events, event_cfg,
                  idx, chosen, raised, fetchCalls, parseCalls, buffered>>

Next ==
    \/ GetConfigStore
    \/ GetConfigReturn
    \/ ReadDefaultTz
    \/ DetermineMeetupUrl
    \/ ResolveZone
    \/ Baseline
    \/ Fetch
    \/ Parse
    \/ ReadEventConfig
    \/ LoopStep
    \/ SortAndReturn

\* the state of a request that has not started
Fresh ==
    /\ pc = "get_config"
    /\ cfg = NoConfig
    /\ default_tz = NoneStr
    /\ tz_name = NoneStr
    /\ meetup_groups = <<>>
    /\ meetup_url = NoneStr
    /\ zone = NoZone
    /\ baseline_ms = 0
    /\ html = 0
    /\ raw_events = <<>>
    /\ event_cfg = <<>>
    /\ idx = 0
    /\ chosen = EmptyRule
    /\ items = <<>>
    /\ raised = "none"
    /\ returned = FALSE
    /\ fetchCalls = 0
    /\ parseCalls = 0
    /\ buffered = 0

\* CONFIG = load_config() at import, then a request arrives
Init ==
    /\ configFile \in {DocA, DocB}
    /\ CONFIG = load_config(configFile)
    /\ RELOAD_CONFIG_EACH_REQUEST \in BOOLEAN
    /\ page = NoPage
    /\ now = 0
    /\ \E r \in RequestPool : group = r.group /\ url = r.url /\ tz = r.tz
    /\ Fresh

Spec == Init /\ [][Next]_vars

(***************************************************************************)
(* The rule matcher on its own: a request that has reached its for loop,   *)
(* with one raw event whose title is drawn from TitlePool and an           *)
(* event_config whose keys are drawn, in every order, from KeyPool.        *)
(***************************************************************************)
\* "Foo Bar"
TitleBoth ==
    <<"F","o","o"," ","B","a","r">>
\* "bar, then foo"
TitleBarFirst ==
    <<"b","a","r",","," ","t","h","e","n"," ","f","o","o">>
\* "FOOBAR"
TitleJoined ==
    <<"F","O","O","B","A","R">>
\* "nothing"
TitleOnlyO ==
    <<"n","o","t","h","i","n","g">>
\* "A default day"
TitleDefault ==
    <<"A"," ","d","e","f","a","u","l","t"," ","d","a","y">>
\* "Quiz"
TitleQuiz ==
    <<"Q","u","i","z">>

TitlePool ==
    {TitleBoth, TitleBarFirst, TitleJoined, TitleOnlyO, TitleDefault, TitleQuiz}

KeyPool ==
    <<[key |-> KeyFoo, rule |-> RuleFoo], [key |-> KeyBar, rule |-> RuleBar],
      [key |-> DefaultKey, rule |-> RuleDefault], [key |-> KeyO, rule |-> RuleO]>>

OrderedConfigs ==
    {[i \in 1..Len(s) |-> KeyPool[s[i]]] :
        s \in distinctSeqs(Len(KeyPool), MaxKeys)}

DocWith(groups, ecfg) ==
    [loadable |-> TRUE, default_tz |-> MissingKey, meetup_groups |-> groups,
     event_config |-> ecfg]

\* nothing after the source selection has happened yet
BeforeZone ==
    /\ page = NoPage
    /\ now = 0
    /\ zone = NoZone
    /\ baseline_ms = 0
    /\ html = 0
    /\ raw_events = <<>>
    /\ event_cfg = <<>>
    /\ idx = 0
    /\ chosen = EmptyRule
    /\ items = <<>>
    /\ raised = "none"
    /\ returned = FALSE
    /\ fetchCalls = 0
    /\ parseCalls = 0
    /\ buffered = 0

InitPick ==
    \E title \in TitlePool, ecfg \in OrderedConfigs :
        /\ configFile = DocWith(<<GroupPy>>, ecfg)
        /\ CONFIG = load_config(configFile)
        /\ RELOAD_CONFIG_EACH_REQUEST = FALSE
        /\ group = NoneStr /\ url = NoneStr /\ tz = NoneStr
        /\ cfg = CONFIG
        /\ default_tz = cfg.default_tz
        /\ tz_name = default_tz
        /\ meetup_groups = cfg.meetup_groups
        /\ meetup_url = GroupPy.url
        /\ zone = ZoneInfo(tz_name)
        /\ now = 1748779200
        /\ baseline_ms = _today_1am_epoch_ms(zone, now)
        /\ page = Page(TRUE, 1000, TRUE,
                       <<RawEvent(Str(title), Str(Start1000), Absent, Absent)>>)
        /\ html = 1000
        /\ buffered = 1000
        /\ fetchCalls = 1
        /\ parseCalls = 1
        /\ raw_events = page.events
        /\ event_cfg = cfg.event_config
        /\ idx = 1
        /\ chosen = EmptyRule
        /\ items = <<>>
        /\ raised = "none"
        /\ returned = FALSE
        /\ pc = "loop"

NextPick == LoopStep \/ SortAndReturn

SpecPick == InitPick /\ [][NextPick]_vars

(***************************************************************************)
(* The source selection on its own: a request that is about to call        *)
(* _determine_meetup_url, with every combination of group, url and         *)
(* meetup_groups of the pools below.                                       *)
(***************************************************************************)
GroupArgs == {NoneStr, "", "py", "js", "Py"}

UrlArgs == {NoneStr, "", "https://other.test/events"}

GroupMaps ==
    {<<>>, <<GroupPy>>, <<GroupJs>>, <<GroupPy, GroupJs>>,
     <<[name |-> "py", url |-> ""]>>,
     <<[name |-> "py", url |-> NoneStr], GroupJs>>}

InitUrl ==
    \E g \in GroupArgs, u \in UrlArgs, groups \in GroupMaps :
        /\ configFile = DocWith(groups, <<>>)
        /\ CONFIG = load_config(configFile)
        /\ RELOAD_CONFIG_EACH_REQUEST = FALSE
        /\ group = g /\ url = u /\ tz = NoneStr
        /\ cfg = CONFIG
        /\ default_tz = cfg.default_tz
        /\ tz_name = default_tz
        /\ meetup_groups = <<>>
        /\ meetup_url = NoneStr
        /\ BeforeZone
        /\ pc = "determine_url"

NextUrl == DetermineMeetupUrl

SpecUrl == InitUrl /\ [][NextUrl]_vars

(***************************************************************************)
(* Reload per request with other requests running: while this request      *)
(* runs, the configuration document is edited and other requests execute   *)
(* CONFIG = load_config() in their own _get_config (their only write to    *)
(* state that this request can see).                                       *)
(***************************************************************************)
DocD ==
    [loadable |-> TRUE, default_tz |-> "UTC",
     meetup_groups |-> <<[name |-> "py", url |-> "https://meetup.test/py3"],
                         GroupJs>>,
     event_config |-> <<[key |-> KeyFoo, rule |-> RuleFoo]>>]

ReloadDocs == {DocC, DocD, DocBroken}

EditConfigFile ==
    /\ \E doc \in ReloadDocs : doc # configFile /\ configFile' = doc
    /\ UNCHANGED <<CONFIG, RELOAD_CONFIG_EACH_REQUEST, page, now, group, url, tz,
                   pc, cfg, default_tz, tz_name, meetup_groups, meetup_url,
                   zone, baseline_ms, html, raw_events, event_cfg, idx, chosen,
                   items, raised, returned, fetchCalls, parseCalls, buffered>>

OtherRequestGetConfig ==
    /\ RELOAD_CONFIG_EACH_REQUEST
    /\ configFile.loadable
    /\ CONFIG' = load_config(configFile)
    /\ UNCHANGED <<configFile, RELOAD_CONFIG_EACH_REQUEST, page, now, group, url,
                   tz, pc, cfg, default_tz, tz_name, meetup_groups, meetup_url,
                   zone, baseline_ms, html, raw_events, event_cfg, idx, chosen,
                   items, raised, returned, fetchCalls, parseCalls, buffered>>

InitReload ==
    /\ configFile \in {DocC, DocD}
    /\ CONFIG = load_config(configFile)
    /\ RELOAD_CONFIG_EACH_REQUEST = TRUE
    /\ group = "py" /\ url = NoneStr /\ tz = NoneStr
    /\ page = NoPage
    /\ now = 0
    /\ Fresh

NextReload == Next \/ EditConfigFile \/ OtherRequestGetConfig

SpecReload == InitReload /\ [][NextReload]_vars

(***************************************************************************)
(* Properties                                                              *)
(***************************************************************************)
\* "02:00 AM"
HM0200 ==
    <<"0","2",":","0","0"," ","A","M">>
\* "https://x.test/e/1)"
LinkOneParenLeft ==
    <<"h","t","t","p","s",":","/","/","x",".","t","e","s","t","/","e","/","1",")">>
\* "https://x.test/e/1"
LinkNoParen ==
    <<"h","t","t","p","s",":","/","/","x",".","t","e","s","t","/","e","/","1">>

hasTitle(ev) == orEmptyStrip(ev.title).ok /\ orEmptyStrip(ev.title).str # <<>>

hasStart(ev) == _ensure_datetime(ev.starts_at).ok

\* the UTC instant of the event's start once the zone is attached
startsAtUtc(ev, z) == timestamp(attachZone(_ensure_datetime(ev.starts_at).dt, z))

\* the positions in items of the records built from raw_events[i]
recordsOf(i) == {k \in 1..Len(items) : items[k].src = i}

\* C1: the returned list holds exactly one record for each raw event with a
\* non-empty trimmed title, a resolvable start and a start at or after the
\* baseline, and none for a raw event that starts before the baseline.
C1_KeptExactlyOnce ==
    returned =>
        \A i \in 1..Len(raw_events) :
            LET ev == raw_events[i]
            IN (hasTitle(ev) /\ hasStart(ev)) =>
                   IF startsAtUtc(ev, zone) >= baseline_ms
                   THEN Cardinality(recordsOf(i)) = 1
                   ELSE recordsOf(i) = {}

\* a list was returned for a page with an event exactly at the baseline,
\* which is in the list, and an event before the baseline
C1_Witness ==
    /\ returned
    /\ \E i, j \in 1..Len(raw_events) :
          /\ hasTitle(raw_events[i]) /\ hasStart(raw_events[i])
          /\ startsAtUtc(raw_events[i], zone) = baseline_ms
          /\ recordsOf(i) # {}
          /\ hasTitle(raw_events[j]) /\ hasStart(raw_events[j])
          /\ startsAtUtc(raw_events[j], zone) < baseline_ms

\* C2: the returned list is sorted non-decreasing by timeISO, compared as
\* strings, and records with equal timeISO keep the order of their raw events.
C2_SortedStable ==
    returned =>
        \A a, b \in 1..Len(items) :
            a < b =>
                /\ ~strLess(items[b].timeISO, items[a].timeISO)
                /\ items[a].timeISO = items[b].timeISO
                       => items[a].src < items[b].src

\* a list was returned that holds two records with the same timeISO
C2_Witness ==
    /\ returned
    /\ \E a, b \in 1..Len(items) :
          a < b /\ items[a].timeISO = items[b].timeISO

\* the UTC instants at which the wall clock of zone z reads w
instantsWithWall(z, w) ==
    {u \in {w - z.std, w - z.dst} : zoneOffsetUtc(z, u) = w - u}

\* C3: a start time without offset keeps its wall clock (timeISO is the input
\* wall clock) and gets the target zone; a start time with an offset, or a
\* trailing Z, keeps its instant and is shown in the target zone;
\* "2025-06-01T09:00:00Z" in America/Los_Angeles gives timeISO
\* "2025-06-01T02:00:00" and timeLocalHM "02:00 AM".
C3_ZoneAttachment ==
    \A k \in 1..Len(items) :
        LET it == items[k]
            ev == raw_events[it.src]
            p  == _ensure_datetime(ev.starts_at).dt
            w  == wallSecs(fromisoformat(it.timeISO).dt)
        IN /\ p.tzinfo.kind = "none" =>
                 /\ w = wallSecs(p)
                 /\ (ev.starts_at.tag = "str" /\ Len(strip(ev.starts_at.str)) = 19)
                        => it.timeISO = strip(ev.starts_at.str)
                 /\ \E u \in {w - zone.std, w - zone.dst} :
                        it.daysDiff = (u - baseline_ms) \div DaySecs
           /\ p.tzinfo.kind # "none" =>
                 /\ (wallSecs(p) - p.tzinfo.off) \in instantsWithWall(zone, w)
                 /\ it.daysDiff =
                        ((wallSecs(p) - p.tzinfo.off) - baseline_ms) \div DaySecs
           /\ (ev.starts_at = Str(StartZ) /\ zone.name = "America/Los_Angeles") =>
                 /\ it.timeISO = Start0200
                 /\ it.timeLocalHM = HM0200

\* the record of the event that starts at "2025-06-01T09:00:00Z", built for
\* America/Los_Angeles, is in a returned list next to one of a start time
\* without offset
C3_Witness ==
    /\ returned
    /\ zone.name = "America/Los_Angeles"
    /\ \E k \in 1..Len(items) :
          /\ raw_events[items[k].src].starts_at = Str(StartZ)
          /\ items[k].timeLocalHM = HM0200
    /\ \E k \in 1..Len(items) :
          raw_events[items[k].src].starts_at = Str(Start0200)

\* the positions of the keys of c, "default" aside, that occur in the title
matching(title, c) ==
    {i \in 1..Len(c) :
        c[i].key # DefaultKey /\ contains(lower(title), lower(c[i].key))}

firstMatch(title, c) ==
    IF matching(title, c) # {}
    THEN c[CHOOSE i \in matching(title, c) :
               \A j \in matching(title, c) : i <= j].rule
    ELSE IF \E i \in 1..Len(c) : c[i].key = DefaultKey
    THEN c[CHOOSE i \in 1..Len(c) : c[i].key = DefaultKey].rule
    ELSE EmptyRule

\* C4: the rule chosen for a title is that of the first key in declaration
\* order, "default" aside, whose lowercased form occurs in the lowercased
\* title, wherever it occurs; with no such key it is the rule at "default",
\* or the empty rule; the record carries that rule's thread_id and reminder.
C4_FirstMatch ==
    /\ \A k \in 1..Len(items) :
          LET r == firstMatch(items[k].main, event_cfg)
          IN /\ items[k].reminder = r.reminder
             /\ items[k].thread_id =
                    (IF r.thread_id = "" THEN NoneStr ELSE r.thread_id)
    /\ items # <<>> =>
          LET last == CHOOSE k \in 1..Len(items) :
                          \A j \in 1..Len(items) : items[j].src <= items[k].src
          IN chosen = firstMatch(items[last].main, event_cfg)

\* keys "Foo" then "BAR", a title in which "bar" comes before "foo": the
\* rule of "Foo" was chosen
C4_Witness ==
    /\ Len(items) = 1
    /\ items[1].main = TitleBarFirst
    /\ Len(event_cfg) >= 2
    /\ event_cfg[1].key = KeyFoo
    /\ event_cfg[2].key = KeyBar
    /\ chosen = RuleFoo

noDeclaredUrl(ev) == orEmptyStrip(ev.url).ok /\ orEmptyStrip(ev.url).str = <<>>

\* the first http(s):// run of the description, <<>> when there is none
firstUrl(ev) == searchUrl(orEmptyStrip(ev.description).str)

\* C5 as claimed: with no declared URL the link is the first http(s):// run
\* of the description less exactly one trailing ")", so that
\* "Join us (https://x.test/e/1))" gives "https://x.test/e/1)"; a declared
\* URL is used as it is; with no link at all url is "".
C5_StripsOneParen ==
    \A k \in 1..Len(items) :
        LET it == items[k]
            ev == raw_events[it.src]
            m  == firstUrl(ev)
        IN /\ ~noDeclaredUrl(ev) => it.url = strip(ev.url.str)
           /\ (noDeclaredUrl(ev) /\ m = <<>>) => it.url = <<>>
           /\ (noDeclaredUrl(ev) /\ m # <<>>) =>
                 it.url = IF m[Len(m)] = ")" THEN SubSeq(m, 1, Len(m) - 1) ELSE m
           /\ (noDeclaredUrl(ev) /\ ev.description = Str(DescParens)) =>
                 it.url = LinkOneParenLeft

\* C5 amended: with no declared URL the link is the first http(s):// run of
\* the description less every trailing ")", so that
\* "Join us (https://x.test/e/1))" gives "https://x.test/e/1"; a declared
\* URL is used as it is (trimmed); with no link at all url is "".
C5_StripsEveryParen ==
    \A k \in 1..Len(items) :
        LET it == items[k]
            ev == raw_events[it.src]
            m  == firstUrl(ev)
        IN /\ ~noDeclaredUrl(ev) => it.url = strip(ev.url.str)
           /\ (noDeclaredUrl(ev) /\ m = <<>>) => it.url = <<>>
           /\ (noDeclaredUrl(ev) /\ m # <<>>) =>
                 \E n \in 0..Len(m) :
                     /\ it.url = SubSeq(m, 1, Len(m) - n)
                     /\ \A j \in (Len(m) - n + 1)..Len(m) : m[j] = ")"
                     /\ it.url # <<>> => it.url[Len(it.url)] # ")"
           /\ (noDeclaredUrl(ev) /\ ev.description = Str(DescParens)) =>
                 it.url = LinkNoParen

\* the record of the event described by "Join us (https://x.test/e/1))" is
\* in a returned list, its url without either ")"
C5_Witness ==
    /\ returned
    /\ \E k \in 1..Len(items) :
          /\ noDeclaredUrl(raw_events[items[k].src])
          /\ raw_events[items[k].src].description = Str(DescParens)
          /\ items[k].url = LinkNoParen

\* C6 as claimed: whatever the raw events hold, once the page is parsed the
\* request raises nothing and returns a list without the events that lack a
\* title or a resolvable start and with every other event that starts at or
\* after the baseline.
C6_NeverFailsBatch ==
    (pc = "done" /\ parseCalls = 1 /\ raised # "ParseError") =>
        /\ raised = "none"
        /\ returned
        /\ \A i \in 1..Len(raw_events) :
              LET ev == raw_events[i]
              IN IF hasTitle(ev) /\ hasStart(ev)
                 THEN startsAtUtc(ev, zone) >= baseline_ms => recordsOf(i) # {}
                 ELSE recordsOf(i) = {}

isKey(groups, g) == \E i \in 1..Len(groups) : groups[i].name = g

urlOfKey(groups, g) == groups[CHOOSE i \in 1..Len(groups) : groups[i].name = g].url

\* _determine_meetup_url has returned u / has failed with exc
selected(u) == meetup_url = u /\ raised = "none" /\ pc = "zone"

refused(exc) ==
    /\ raised = exc
    /\ status_code(raised) = 400
    /\ pc = "done"
    /\ meetup_url = NoneStr

sourceSelected ==
    pc \notin {"get_config", "get_config_return", "default_tz", "determine_url"}

\* C7 as claimed: a url is returned outright; else a group that is a key of
\* meetup_groups gives that key's URL and a group that is no key fails with
\* UnknownGroup (400); else a single configured group gives its URL; else the
\* request fails with MissingSource (400).
C7_ThreeTiers ==
    sourceSelected =>
        IF truthyStr(url) THEN selected(url)
        ELSE IF truthyStr(group)
        THEN IF isKey(cfg.meetup_groups, group)
             THEN selected(urlOfKey(cfg.meetup_groups, group))
             ELSE refused("UnknownGroup")
        ELSE IF Len(cfg.meetup_groups) = 1
        THEN selected(cfg.meetup_groups[1].url)
        ELSE refused("MissingSource")

\* C7 amended: as claimed, but a group that is a key gives that key's URL
\* only when the URL is not empty; a key with an empty (or null) URL fails
\* with UnknownGroup (400), like a group that is no key.
C7_ThreeTiersNonEmptyUrl ==
    sourceSelected =>
        IF truthyStr(url) THEN selected(url)
        ELSE IF truthyStr(group)
        THEN IF /\ isKey(cfg.meetup_groups, group)
                /\ truthyStr(urlOfKey(cfg.meetup_groups, group))
             THEN selected(urlOfKey(cfg.meetup_groups, group))
             ELSE refused("UnknownGroup")
        ELSE IF Len(cfg.meetup_groups) = 1
        THEN selected(cfg.meetup_groups[1].url)
        ELSE refused("MissingSource")

\* the group asked for is a key whose URL is empty, and the request was
\* refused
C7_Witness ==
    /\ sourceSelected
    /\ ~truthyStr(url)
    /\ truthyStr(group)
    /\ isKey(cfg.meetup_groups, group)
    /\ refused("UnknownGroup")

\* C8: with reload per request and other requests reloading at any moment,
\* everything this request has read of the configuration (default_tz,
\* meetup_groups, event_config) comes from one document, the snapshot cfg
\* that _get_config returned to it.
C8_OneSnapshot ==
    \E doc \in ReloadDocs :
        /\ doc.loadable
        /\ cfg \in {NoConfig, load_config(doc)}
        /\ default_tz \in {NoneStr, load_config(doc).default_tz}
        /\ meetup_groups \in {<<>>, load_config(doc).meetup_groups}
        /\ event_cfg \in {<<>>, load_config(doc).event_config}
        /\ default_tz # NoneStr => default_tz = cfg.default_tz
        /\ meetup_groups # <<>> => meetup_groups = cfg.meetup_groups
        /\ event_cfg # <<>> => event_cfg = cfg.event_config

\* the request has read default_tz and meetup_groups, has not yet read
\* event_config, and another request has replaced CONFIG in between
C8_Witness ==
    /\ pc = "event_cfg"
    /\ CONFIG # cfg
    /\ CONFIG.default_tz # default_tz
    /\ CONFIG.event_config # cfg.event_config

\* C9: _fetch_html never holds more than max_bytes + 1 bytes; a body of at
\* most max_bytes bytes is returned whole; a longer body ends the request
\* with TooLarge (413), which events() does not turn into FetchError (502).
C9_SizeCap ==
    /\ buffered <= max_bytes + 1
    /\ (fetchCalls >= 1 /\ page.transport_ok /\ page.length <= max_bytes) =>
          /\ html = page.length
          /\ raised \notin {"TooLarge", "FetchError"}
    /\ (fetchCalls >= 1 /\ page.transport_ok /\ page.length > max_bytes) =>
          /\ raised = "TooLarge"
          /\ status_code(raised) = 413
          /\ pc = "done"
          /\ ~returned
          /\ parseCalls = 0

\* a body of more than max_bytes + 1 bytes was served and refused
C9_Witness ==
    /\ fetchCalls = 1
    /\ page.transport_ok
    /\ page.length > max_bytes + 1
    /\ buffered = max_bytes + 1
    /\ raised = "TooLarge"

\* C10: an error ends the request and nothing is tried again: the fetcher
\* and the parser are each called at most once; no fetch after UnknownGroup,
\* MissingSource or InvalidTimeZone; no parse after FetchError or TooLarge;
\* no list after ParseError; a finished request has raised one error or
\* returned a list, never both.
C10_ErrorsAreTerminal ==
    /\ fetchCalls <= 1
    /\ parseCalls <= 1
    /\ raised \in {"UnknownGroup", "MissingSource", "InvalidTimeZone"}
          => fetchCalls = 0
    /\ raised \in {"FetchError", "TooLarge"} => parseCalls = 0
    /\ raised = "ParseError" => ~returned
    /\ raised # "none" => pc = "done"
    /\ ~(raised # "none" /\ returned)
    /\ pc = "done" => (raised # "none" \/ returned)

\* the fetch failed and the request is over, the parser never called
C10_Witness ==
    /\ raised = "FetchError"
    /\ pc = "done"
    /\ fetchCalls = 1
    /\ parseCalls = 0

=============================================================================
